---- MODULE Spec2Model ----
(***************************************************************************)
(* link-capture: the URL capture pipeline of scripts/capture.py and its    *)
(* fetchers (twitter, youtube, web) and storage backends (sqlite, nmem).   *)
(*                                                                         *)
(* Text (Python str) is a sequence of one-character strings; a character   *)
(* outside ASCII is the one-element string "U+XXXX" of its code point.     *)
(* A Python dict is a function from key names to values; d.get(k, v) is    *)
(* Get(d, k, v).  Importance is kept in hundredths (0.65 is 65).           *)
(***************************************************************************)
EXTENDS Integers, Sequences, FiniteSets, TLC

\* ---------------------------------------------------------------- bounds
\* pipeline invocations that may overlap in the concurrent host
NumRuns == 2
\* width of the modelled digest of _url_id (the code keeps 64 bits)
IdBits == 2
\* calls a direct client of SQLiteBackend makes
MaxSaves == 3
\* lines of a subtitle file handed to _parse_vtt
MaxVttLines == 3

\* ------------------------------------------------------------ text helpers
Min(a, b) == IF a <= b THEN a ELSE b

\* s[:n]
Take(s, n) == SubSeq(s, 1, Min(n, Len(s)))

\* s.startswith(p)
StartsWith(s, p) == Len(p) <= Len(s) /\ SubSeq(s, 1, Len(p)) = p

\* p in s
Contains(s, p) == \E i \in 1..(Len(s) - Len(p) + 1) : SubSeq(s, i, i + Len(p) - 1) = p

RECURSIVE Join(_, _)
\* sep.join(parts)
Join(parts, sep) ==
    IF parts = <<>> THEN <<>>
    ELSE IF Len(parts) = 1 THEN parts[1]
    ELSE parts[1] \o sep \o Join(Tail(parts), sep)

Digits == <<"0","1","2","3","4","5","6","7","8","9">>

IsDigit(c) == \E i \in 1..10 : Digits[i] = c

RECURSIVE Dec(_)
\* str(n) for n >= 0
Dec(n) == IF n < 10 THEN <<Digits[n + 1]>> ELSE Dec(n \div 10) \o <<Digits[(n % 10) + 1]>>

RECURSIVE Commas(_)
\* f"{n:,}" for n >= 0
Commas(n) ==
    IF n < 1000 THEN Dec(n)
    ELSE Commas(n \div 1000) \o <<",">> \o
         <<Digits[((n \div 100) % 10) + 1], Digits[((n \div 10) % 10) + 1], Digits[(n % 10) + 1]>>

\* s * n
Repeat(s, n) == [i \in 1..(n * Len(s)) |-> s[((i - 1) % Len(s)) + 1]]

RECURSIVE UpTo(_, _)
\* the prefix of s before its first character of stops
UpTo(s, stops) ==
    IF s = <<>> \/ Head(s) \in stops THEN <<>> ELSE <<Head(s)>> \o UpTo(Tail(s), stops)

\* d.get(k, default)
Get(d, k, default) == IF k \in DOMAIN d THEN d[k] ELSE default

\* {**a, **b}
Merge(a, b) == [k \in (DOMAIN a) \cup (DOMAIN b) |-> IF k \in DOMAIN b THEN b[k] ELSE a[k]]

\* {k: v for k, v in d.items() if k not in keys}
Without(d, keys) == [k \in (DOMAIN d) \ keys |-> d[k]]

\* the empty dict
EmptyDict == <<>>

\* ------------------------------------------------------------------- URLs
TweetUrl   == <<"h","t","t","p","s",":","/","/","x",".","c","o","m","/","u","/","s","t","a","t","u","s","/","1">>
ShortUrl   == <<"h","t","t","p","s",":","/","/","t",".","c","o","/","a">>
VideoUrl   == <<"h","t","t","p","s",":","/","/","y","o","u","t","u",".","b","e","/","v">>
ChannelUrl == <<"h","t","t","p","s",":","/","/","w","w","w",".","y","o","u","t","u","b","e",".","c","o","m","/","c">>
WebUrl     == <<"h","t","t","p",":","/","/","e",".","i","o","/","a">>
FinalUrl   == <<"h","t","t","p",":","/","/","e",".","i","o","/","b">>
FtpUrl     == <<"f","t","p",":","/","/","e",".","i","o","/","a">>
BareUrl    == <<"x",".","c","o","m","/","u","/","s","t","a","t","u","s","/","1">>

\* the URLs a caller passes to run()
URLs == {TweetUrl, ShortUrl, VideoUrl, ChannelUrl, WebUrl, FtpUrl, BareUrl}

Schemes == {<<"h","t","t","p",":","/","/">>, <<"h","t","t","p","s",":","/","/">>}

\* re.match(r"https?://(www\.)?(twitter\.com|x\.com|t\.co)/", url)
is_twitter_url(url) ==
    \E scheme \in Schemes, www \in {<<>>, <<"w","w","w",".">>},
       host \in {<<"t","w","i","t","t","e","r",".","c","o","m">>, <<"x",".","c","o","m">>, <<"t",".","c","o">>} :
        StartsWith(url, scheme \o www \o host \o <<"/">>)

\* re.match(r"https?://(www\.)?(youtube\.com/watch|youtu\.be/|youtube\.com/shorts/)", url)
is_youtube_url(url) ==
    \E scheme \in Schemes, www \in {<<>>, <<"w","w","w",".">>},
       rest \in {<<"y","o","u","t","u","b","e",".","c","o","m","/","w","a","t","c","h">>, <<"y","o","u","t","u",".","b","e","/">>, <<"y","o","u","t","u","b","e",".","c","o","m","/","s","h","o","r","t","s","/">>} :
        StartsWith(url, scheme \o www \o rest)

\* url.startswith("http://") or url.startswith("https://")
is_web_url(url) == StartsWith(url, <<"h","t","t","p",":","/","/">>) \/ StartsWith(url, <<"h","t","t","p","s",":","/","/">>)

\* no match of a regular expression
NoMatch == <<>>

RECURSIVE DigitRun(_, _)
\* the longest run of digits of s that starts at position i
DigitRun(s, i) ==
    IF i <= Len(s) /\ IsDigit(s[i]) THEN <<s[i]>> \o DigitRun(s, i + 1) ELSE <<>>

\* the positions of url where /status/<digit> or /statuses/<digit> starts
StatusAt(url) ==
    { i \in 1..Len(url) :
        \E p \in {<<"/","s","t","a","t","u","s","/">>, <<"/","s","t","a","t","u","s","e","s","/">>} :
            /\ i + Len(p) <= Len(url)
            /\ SubSeq(url, i, i + Len(p) - 1) = p
            /\ IsDigit(url[i + Len(p)]) }

\* re.search(r"/status(?:es)?/(\d+)", url): group 1 of the leftmost match, or None
_extract_id(url) ==
    IF StatusAt(url) = {} THEN NoMatch
    ELSE LET i == CHOOSE j \in StatusAt(url) : \A k \in StatusAt(url) : j <= k
             p == IF SubSeq(url, i, i + 7) = <<"/","s","t","a","t","u","s","/">> THEN <<"/","s","t","a","t","u","s","/">> ELSE <<"/","s","t","a","t","u","s","e","s","/">>
         IN  DigitRun(url, i + Len(p))

\* --------------------------------------------------------------- sqlite.py
Alphabet == <<"a","b","c","d","e","f","g","h","i","j","k","l","m","n","o","p","q","r","s","t","u","v","w","x","y","z","0","1","2","3","4","5","6","7","8","9",":","/",".","-","_","?","=","&">>

Code(c) == IF \E i \in 1..Len(Alphabet) : Alphabet[i] = c
           THEN CHOOSE i \in 1..Len(Alphabet) : Alphabet[i] = c
           ELSE 0

RECURSIVE Digest(_, _)
\* a digest of the bytes of s, kept to IdBits bits
Digest(s, h) ==
    IF s = <<>> THEN h ELSE Digest(Tail(s), (h * 31 + Code(Head(s))) % (2 ^ IdBits))

\* hashlib.sha256(url.encode()).hexdigest()[:16]: a function of the url alone
\* with a fixed-width range, so distinct urls may share an id
_url_id(url) == Digest(url, 7)

\* None, where the code holds a str or None
None == <<"None">>

\* the column values of one INSERT of save(): capture.get(...) with its defaults
Promoted == {"url", "url_type", "title", "author", "content", "summary", "labels",
             "importance", "published_at", "stats"}

\* the order in which the fetchers fill a stats dict
StatKeys == <<"views", "likes", "retweets", "bookmarks", "replies", "comments">>

KeyText(k) ==
    CASE k = "views" -> <<"v","i","e","w","s">> [] k = "likes" -> <<"l","i","k","e","s">> [] k = "retweets" -> <<"r","e","t","w","e","e","t","s">>
      [] k = "bookmarks" -> <<"b","o","o","k","m","a","r","k","s">> [] k = "replies" -> <<"r","e","p","l","i","e","s">>
      [] k = "comments" -> <<"c","o","m","m","e","n","t","s">>

\* json.dumps of a list of ASCII strings without quotes or backslashes
JsonList(l) ==
    <<"[">> \o Join([i \in 1..Len(l) |-> <<"\"">> \o l[i] \o <<"\"">>], <<","," ">>) \o <<"]">>

\* json.dumps of a dict of integers
JsonStats(stats) ==
    LET present == SelectSeq(StatKeys, LAMBDA k : k \in DOMAIN stats)
    IN  <<"{">> \o Join([i \in 1..Len(present) |->
                        <<"\"">> \o KeyText(present[i]) \o <<"\"",":"," ">> \o Dec(stats[present[i]])],
                     <<","," ">>) \o <<"}">>

\* save(): the cut of the content column, [:20000]
ContentCap == 20000

\* the row save() writes for capture at time now
RowOf(capture, now) ==
    [ id           |-> _url_id(capture["url"]),
      url          |-> Get(capture, "url", <<>>),
      url_type     |-> Get(capture, "url_type", <<"w","e","b">>),
      title        |-> Get(capture, "title", <<>>),
      author       |-> Get(capture, "author", <<>>),
      content      |-> Take(Get(capture, "content", <<>>), ContentCap),
      summary      |-> Get(capture, "summary", <<>>),
      labels       |-> JsonList(Get(capture, "labels", <<>>)),
      importance   |-> Get(capture, "importance", 50),
      published_at |-> Get(capture, "published_at", <<>>),
      captured_at  |-> now,
      stats_json   |-> JsonStats(Get(capture, "stats", EmptyDict)),
      extra_json   |-> Without(capture, Promoted) ]

\* INSERT OR IGNORE in place of INSERT OR REPLACE: a conflicting row is kept
InsertOrIgnore(rows, row) ==
    IF \E r \in rows : r.id = row.id \/ r.url = row.url THEN rows ELSE rows \cup {row}

\* INSERT OR REPLACE on a table whose id is no key: only a row with the url
\* of the new row is deleted
InsertOrReplace_UrlOnly(rows, row) ==
    {r \in rows : r.url # row.url} \cup {row}

\* INSERT OR REPLACE under id PRIMARY KEY and url UNIQUE: the rows that
\* conflict with the new row on either are deleted, then the row is inserted
InsertOrReplace(rows, row) ==
    {r \in rows : r.id # row.id /\ r.url # row.url} \cup {row}

\* SQLiteBackend.save: the table afterwards and the uid returned
save(rows, capture, now) ==
    [ rows |-> InsertOrReplace(rows, RowOf(capture, now)),
      uid  |-> _url_id(capture["url"]) ]

\* SQLiteBackend.exists: SELECT 1 FROM captures WHERE url=?
exists(rows, url) == \E r \in rows : r.url = url

\* datetime.utcnow() as read by a save
Times == {1, 2}

\* a counter that the service answered as JSON null: d.get(k, 0) hands back
\* None, not 0, for a key that is present.  Counters are never negative.
Null == -1

\* f"{stats.get(k, 0):,}" raises TypeError for one of keys
FormatRaises(stats, keys) == \E k \in keys : Get(stats, k, 0) = Null

\* ----------------------------------------------------------------- nmem.py
\* compute_importance with >= in place of >
compute_importance_AtLeast(capture) ==
    LET stats     == Get(capture, "stats", EmptyDict)
        views     == Get(stats, "views", 0)
        bookmarks == Get(stats, "bookmarks", 0)
        likes     == Get(stats, "likes", 0)
        url_type  == Get(capture, "url_type", <<"w","e","b">>)
    IN  IF url_type = <<"t","w","i","t","t","e","r">> THEN
            IF views >= 500000 \/ bookmarks >= 5000 THEN 90
            ELSE IF views >= 100000 \/ bookmarks >= 2000 \/ likes >= 5000 THEN 80
            ELSE IF views >= 10000 \/ likes >= 500 THEN 65
            ELSE 50
        ELSE IF url_type = <<"y","o","u","t","u","b","e">> THEN
            IF views >= 1000000 THEN 80
            ELSE IF views >= 100000 THEN 65
            ELSE 50
        ELSE 50

\* compute_importance with the return values of the two upper tweet tiers
\* exchanged
compute_importance_Swapped(capture) ==
    LET stats     == Get(capture, "stats", EmptyDict)
        views     == Get(stats, "views", 0)
        bookmarks == Get(stats, "bookmarks", 0)
        likes     == Get(stats, "likes", 0)
        url_type  == Get(capture, "url_type", <<"w","e","b">>)
    IN  IF url_type = <<"t","w","i","t","t","e","r">> THEN
            IF views > 500000 \/ bookmarks > 5000 THEN 80
            ELSE IF views > 100000 \/ bookmarks > 2000 \/ likes > 5000 THEN 90
            ELSE IF views > 10000 \/ likes > 500 THEN 65
            ELSE 50
        ELSE IF url_type = <<"y","o","u","t","u","b","e">> THEN
            IF views > 1000000 THEN 80
            ELSE IF views > 100000 THEN 65
            ELSE 50
        ELSE 50

\* compute_importance, in hundredths
compute_importance(capture) ==
    LET stats     == Get(capture, "stats", EmptyDict)
        views     == Get(stats, "views", 0)
        bookmarks == Get(stats, "bookmarks", 0)
        likes     == Get(stats, "likes", 0)
        url_type  == Get(capture, "url_type", <<"w","e","b">>)
    IN  IF url_type = <<"t","w","i","t","t","e","r">> THEN
            IF views > 500000 \/ bookmarks > 5000 THEN 90
            ELSE IF views > 100000 \/ bookmarks > 2000 \/ likes > 5000 THEN 80
            ELSE IF views > 10000 \/ likes > 500 THEN 65
            ELSE 50
        ELSE IF url_type = <<"y","o","u","t","u","b","e">> THEN
            IF views > 1000000 THEN 80
            ELSE IF views > 100000 THEN 65
            ELSE 50
        ELSE 50

UpperCase == <<"A","B","C","D","E","F","G","H","I","J","K","L","M","N","O","P","Q","R","S","T","U","V","W","X","Y","Z">>
LowerCase == <<"a","b","c","d","e","f","g","h","i","j","k","l","m","n","o","p","q","r","s","t","u","v","w","x","y","z">>

LowerChar(c) ==
    IF \E i \in 1..26 : UpperCase[i] = c
    THEN LowerCase[CHOOSE i \in 1..26 : UpperCase[i] = c]
    ELSE c

\* s.lower()
Lower(s) == [i \in 1..Len(s) |-> LowerChar(s[i])]

\* topic_map, in its insertion order
topic_map ==
    <<
       [label |-> <<"o","p","e","n","c","l","a","w">>,
        keywords |-> {<<"o","p","e","n","c","l","a","w">>, <<"c","l","a","u","d","e">>, <<"a","n","t","h","r","o","p","i","c">>}],
       [label |-> <<"a","i","-","a","g","e","n","t","s">>,
        keywords |-> {<<"a","g","e","n","t">>, <<"a","g","e","n","t","i","c">>, <<"m","u","l","t","i","-","a","g","e","n","t">>, <<"l","l","m">>, <<"g","p","t">>}],
       [label |-> <<"r","o","b","o","t","i","c","s">>,
        keywords |-> {<<"r","o","b","o","t">>, <<"h","u","m","a","n","o","i","d">>, <<"u","n","i","t","r","e","e">>, <<"e","m","b","o","d","i","e","d">>}],
       [label |-> <<"t","w","i","t","t","e","r">>,
        keywords |-> {<<"t","w","i","t","t","e","r">>, <<"t","w","e","e","t">>, <<"x",".","c","o","m">>, <<"@">>}],
       [label |-> <<"r","e","a","l","-","e","s","t","a","t","e">>,
        keywords |-> {<<"r","e","a","l"," ","e","s","t","a","t","e">>, <<"p","r","o","p","e","r","t","y">>, <<"z","e","a","l","t","y">>, <<"m","l","s">>, <<"h","o","u","s","i","n","g">>}],
       [label |-> <<"s","c","h","o","o","l","-","d","i","s","t","r","i","c","t">>,
        keywords |-> {<<"s","c","h","o","o","l">>, <<"d","i","s","t","r","i","c","t">>, <<"i","u","s","d">>, <<"u","n","i","v","e","r","s","i","t","y"," ","h","i","g","h">>, <<"i","r","v","i","n","e">>}],
       [label |-> <<"i","m","m","i","g","r","a","t","i","o","n">>,
        keywords |-> {<<"v","i","s","a">>, <<"g","r","e","e","n"," ","c","a","r","d">>, <<"e","b","-","5">>, <<"i","m","m","i","g","r","a","t","i","o","n">>}],
       [label |-> <<"c","o","n","t","e","n","t","-","s","t","r","a","t","e","g","y">>,
        keywords |-> {<<"c","o","n","t","e","n","t">>, <<"s","t","r","a","t","e","g","y">>, <<"g","r","o","w","t","h">>, <<"a","u","d","i","e","n","c","e">>, <<"v","i","r","a","l">>}],
       [label |-> <<"e","n","g","i","n","e","e","r","i","n","g">>,
        keywords |-> {<<"c","o","d","e">>, <<"s","c","r","a","p","e","r">>, <<"p","y","t","h","o","n">>, <<"a","p","i">>, <<"p","i","p","e","l","i","n","e">>, <<"e","t","l">>}],
       [label |-> <<"n","o","r","t","h","-","s","h","o","r","e","-","c","r","o","s","s","i","n","g">>,
        keywords |-> {<<"l","i","o","n","s"," ","g","a","t","e">>, <<"i","r","o","n","w","o","r","k","e","r","s">>, <<"b","r","i","d","g","e">>, <<"n","o","r","t","h"," ","s","h","o","r","e">>}]
    >>

\* _auto_labels with the cap written labels[-6:]
_auto_labels_CapTail(capture, summary) ==
    LET text   == Lower(Get(capture, "title", <<>>) \o <<" ">> \o summary)
        topics == SelectSeq(topic_map,
                            LAMBDA t : \E kw \in t.keywords : Contains(text, kw))
        labels == <<<<"s","o","u","r","c","e","-">> \o Get(capture, "url_type", <<"w","e","b">>)>>
                  \o [i \in 1..Len(topics) |-> topics[i].label]
    IN  IF Len(labels) <= 6 THEN labels ELSE SubSeq(labels, Len(labels) - 5, Len(labels))

\* _auto_labels
_auto_labels(capture, summary) ==
    LET text   == Lower(Get(capture, "title", <<>>) \o <<" ">> \o summary)
        topics == SelectSeq(topic_map,
                            LAMBDA t : \E kw \in t.keywords : Contains(text, kw))
        labels == <<<<"s","o","u","r","c","e","-">> \o Get(capture, "url_type", <<"w","e","b">>)>>
                  \o [i \in 1..Len(topics) |-> topics[i].label]
    IN  Take(labels, 6)

\* format_for_nmem raises: a stat of the stats line is None
format_for_nmem_raises(capture) ==
    LET url_type == Get(capture, "url_type", <<"w","e","b">>)
        stats    == Get(capture, "stats", EmptyDict)
    IN  \/ url_type = <<"t","w","i","t","t","e","r">> /\ DOMAIN stats # {}
           /\ FormatRaises(stats, {"views", "bookmarks", "likes"})
        \/ url_type = <<"y","o","u","t","u","b","e">> /\ DOMAIN stats # {}
           /\ FormatRaises(stats, {"views", "likes"})

\* format_for_nmem
format_for_nmem(capture, summary) ==
    LET url_type == Get(capture, "url_type", <<"w","e","b">>)
        stats    == Get(capture, "stats", EmptyDict)
        title0   == Get(capture, "title", <<>>)
        title    == IF url_type = <<"t","w","i","t","t","e","r">> THEN
                        LET screen_name == Get(capture, "screen_name", <<>>)
                        IN  IF screen_name # <<>>
                            THEN <<"[","@">> \o screen_name \o <<"]"," ">> \o Take(title0, 55)
                            ELSE Take(title0, 60)
                    ELSE IF url_type = <<"y","o","u","t","u","b","e">> THEN
                        LET ch      == Get(capture, "channel", <<>>)
                            channel == IF ch # <<>> THEN ch ELSE Get(capture, "author", <<>>)
                        IN  Take(<<"[","Y","o","u","T","u","b","e","]"," ">> \o Take(title0, 45) \o <<" ","U+2014"," ">> \o channel, 60)
                    ELSE title0
        stats_line == IF url_type = <<"t","w","i","t","t","e","r">> /\ DOMAIN stats # {} THEN
                          <<"U+6570","U+636E","U+FF1A">> \o Commas(Get(stats, "views", 0)) \o <<"U+64AD","U+653E","U+FF0C">>
                          \o Commas(Get(stats, "bookmarks", 0)) \o <<"U+6536","U+85CF","U+FF0C">>
                          \o Commas(Get(stats, "likes", 0)) \o <<"U+8D5E","\n">>
                      ELSE IF url_type = <<"y","o","u","t","u","b","e">> /\ DOMAIN stats # {} THEN
                          <<"U+6570","U+636E","U+FF1A">> \o Commas(Get(stats, "views", 0)) \o <<"U+64AD","U+653E","U+FF0C">>
                          \o Commas(Get(stats, "likes", 0)) \o <<"U+8D5E","\n">>
                      ELSE <<>>
        transcript_note == IF url_type = <<"y","o","u","t","u","b","e">>
                           THEN <<"U+5B57","U+5E55","U+6765","U+6E90","U+FF1A">> \o Get(capture, "transcript_method", <<>>) \o <<"\n">>
                           ELSE <<>>
        text == <<"U+6765","U+6E90","U+FF1A">> \o capture["url"]
                \o <<" ","/"," ">> \o Get(capture, "author", <<>>)
                \o <<" ","/"," ">> \o Get(capture, "published_at", <<>>) \o <<"\n">>
                \o stats_line \o transcript_note \o <<"\n">> \o summary
        pub  == Get(capture, "published_at", <<>>)
    IN  [ title       |-> title,
          text        |-> text,
          unit_type   |-> IF url_type \in {<<"t","w","i","t","t","e","r">>, <<"y","o","u","t","u","b","e">>} THEN <<"e","v","e","n","t">> ELSE <<"f","a","c","t">>,
          labels      |-> _auto_labels(capture, summary),
          importance  |-> compute_importance(capture),
          event_start |-> IF pub # <<>> /\ Len(pub) >= 10 THEN Take(pub, 10) ELSE None ]

\* --------------------------------------------------------------- capture.py
\* auto_summary raises: a stat of the tweet stats line is None
auto_summary_raises(capture) ==
    LET stats == Get(capture, "stats", EmptyDict)
    IN  /\ Get(capture, "url_type", <<"w","e","b">>) = <<"t","w","i","t","t","e","r">>
        /\ DOMAIN stats # {}
        /\ FormatRaises(stats, {"views", "likes", "bookmarks"})

\* auto_summary: the list parts before the return
summary_parts(capture) ==
    LET url_type == Get(capture, "url_type", <<"w","e","b">>)
        content  == Get(capture, "content", <<>>)
        stats    == Get(capture, "stats", EmptyDict)
    IN      IF url_type = <<"t","w","i","t","t","e","r">> THEN
                LET sn == Get(capture, "screen_name", <<>>)
                    qt == Get(capture, "quote_tweet", <<>>)
                IN  <<IF sn # <<>> THEN <<"T","w","e","e","t"," ","b","y"," ","@">> \o sn \o <<":">> ELSE <<"T","w","e","e","t",":">>>>
                    \o <<Take(content, 200)>>
                    \o (IF DOMAIN stats # {}
                        THEN <<<<"[">> \o Commas(Get(stats, "views", 0)) \o <<" ","v","i","e","w","s"," ","U+00B7"," ">>
                               \o Commas(Get(stats, "likes", 0)) \o <<" ","l","i","k","e","s"," ","U+00B7"," ">>
                               \o Commas(Get(stats, "bookmarks", 0)) \o <<" ","b","o","o","k","m","a","r","k","s","]">>>>
                        ELSE <<>>)
                    \o (IF qt # <<>>
                        THEN <<<<"Q","u","o","t","i","n","g"," ","@">> \o qt[1]["screen_name"] \o <<":"," ">>
                               \o Take(qt[1]["text"], 100)>>
                        ELSE <<>>)
            ELSE IF url_type = <<"y","o","u","t","u","b","e">> THEN
                LET c0  == Get(capture, "channel", <<>>)
                    ch  == IF c0 # <<>> THEN c0 ELSE Get(capture, "author", <<>>)
                    dur == Get(capture, "duration_secs", 0)
                    method     == Get(capture, "transcript_method", <<>>)
                    transcript == Get(capture, "transcript", <<>>)
                IN  <<<<"Y","o","u","T","u","b","e"," ","v","i","d","e","o"," ","b","y"," ">> \o ch \o <<" ","(">> \o Dec(dur \div 60)
                      \o <<" ","m","i","n",")"," ","[">> \o method \o <<"]">>>>
                    \o <<IF transcript # <<>> THEN Take(transcript, 300) ELSE Take(content, 300)>>
            ELSE
                LET domain == Get(capture, "domain", <<>>)
                    author == Get(capture, "author", <<>>)
                IN  (IF author # <<>> /\ author # domain
                     THEN <<<<"A","r","t","i","c","l","e"," ","b","y"," ">> \o author \o <<" ","(">> \o domain \o <<")",":">>>>
                     ELSE <<>>)
                    \o <<Take(content, 300)>>

\* the default of max_len
DefaultMaxLen == 400

\* auto_summary that cuts every part to max_len and not the joined text
auto_summary_PartCap(capture, max_len) ==
    Join([i \in 1..Len(summary_parts(capture)) |-> Take(summary_parts(capture)[i], max_len)],
         <<"\n">>)

\* auto_summary
auto_summary(capture, max_len) == Take(Join(summary_parts(capture), <<"\n">>), max_len)

\* ------------------------------------------------------- fetchers/twitter.py
\* what the FxTwitter API answers for a status: the "tweet" object.  A
\* raw_text, when present, is the dict {"text": ...} of a media-only tweet.
\* The second tweet has "views": null.
Tweets ==
    { [ author     |-> [name |-> <<"B","o","b">>, screen_name |-> <<"b","o","b">>],
        text       |-> <<"N","e","w"," ","a","g","e","n","t"," ","A","P","I">>,
        created_at |-> <<"M","o","n"," ","J","a","n"," ","0","1"," ","1","0",":","0","0",":","0","0"," ","+","0","0","0","0"," ","2","0","2","4">>,
        views |-> 100001, likes |-> 12, retweets |-> 3, bookmarks |-> 4, replies |-> 0,
        quote      |-> [author |-> [screen_name |-> <<"a","l">>], text |-> <<"o","l","d">>],
        media      |-> [photos |-> <<[url |-> <<"h","t","t","p","s",":","/","/","p","/","1",".","j","p","g">>]>>] ],
      [ author     |-> [name |-> <<"E","v","e">>, screen_name |-> <<"e","v","e">>],
        text       |-> <<"A","n"," ","o","l","d"," ","p","o","s","t">>,
        created_at |-> <<"S","a","t"," ","J","a","n"," ","0","1"," ","1","0",":","0","0",":","0","0"," ","+","0","0","0","0"," ","2","0","1","1">>,
        views |-> Null, likes |-> 2, retweets |-> 0, bookmarks |-> 0, replies |-> 0 ] }

\* _extract_quote
_extract_quote(tweet) ==
    LET qt == Get(tweet, "quote", EmptyDict)
    IN  IF DOMAIN qt = {} THEN <<>>
        ELSE LET qa == Get(qt, "author", EmptyDict)
             IN  <<[screen_name |-> Get(qa, "screen_name", <<>>),
                    text        |-> Get(qt, "text", <<>>)]>>

\* twitter.fetch after the API has answered with tweet: the capture dict
twitter_capture(url, tweet) ==
    LET author  == Get(tweet, "author", EmptyDict)
        raw     == Get(tweet, "raw_text", EmptyDict)
        raw_str == Get(raw, "text", <<>>)
        text    == Get(tweet, "text", <<>>)
        c0      == IF text # <<>> THEN text ELSE raw_str
        note    == Get(tweet, "note_tweet", EmptyDict)
        c1      == IF DOMAIN note # {} THEN Get(note, "text", c0) ELSE c0
        isart   == Get(tweet, "is_article", FALSE) \/ "article" \in DOMAIN tweet
        a       == Get(tweet, "article", EmptyDict)
        article_text == IF isart THEN Get(a, "full_text", <<>>) ELSE <<>>
        content == IF isart /\ article_text # <<>>
                   THEN Get(a, "title", <<>>) \o <<"\n","\n">> \o article_text
                   ELSE c1
        media   == Get(tweet, "media", EmptyDict)
        photos  == Get(media, "photos", <<>>)
        videos  == Get(media, "videos", <<>>)
        media_urls == [i \in 1..Len(photos) |-> Get(photos[i], "url", <<>>)]
                      \o [i \in 1..Len(videos) |-> Get(videos[i], "url", <<>>)]
    IN  [ url          |-> url,
          url_type     |-> <<"t","w","i","t","t","e","r">>,
          title        |-> <<"@">> \o Get(author, "screen_name", <<>>) \o <<":"," ">>
                           \o Take(content, 80) \o <<".",".",".">>,
          author       |-> Get(author, "name", <<>>),
          screen_name  |-> Get(author, "screen_name", <<>>),
          content      |-> content,
          article_text |-> article_text,
          published_at |-> Get(tweet, "created_at", <<>>),
          stats        |-> [ views     |-> Get(tweet, "views", 0),
                             likes     |-> Get(tweet, "likes", 0),
                             retweets  |-> Get(tweet, "retweets", 0),
                             bookmarks |-> Get(tweet, "bookmarks", 0),
                             replies   |-> Get(tweet, "replies", 0) ],
          media_urls   |-> media_urls,
          is_article   |-> article_text # <<>>,
          quote_tweet  |-> _extract_quote(tweet) ]

\* ------------------------------------------------------- fetchers/youtube.py
\* what yt-dlp --dump-json answers
Metas ==
    { [ title |-> <<"R","o","b","o","t"," ","d","e","m","o">>, uploader |-> <<"A","n","n">>, channel |-> <<"A","n","n","T","V">>,
        description |-> <<"A"," ","h","u","m","a","n","o","i","d"," ","r","o","b","o","t">>, duration |-> 125,
        view_count |-> 100001, like_count |-> 7, comment_count |-> 1,
        upload_date |-> <<"2","0","2","4","0","1","0","1">>, thumbnail |-> <<"h","t","t","p","s",":","/","/","i","/","t",".","j","p","g">>,
        tags |-> <<<<"r","o","b","o","t">>>>, chapters |-> <<[start_time |-> 61, title |-> <<"I","n","t","r","o">>]>> ] }

\* what a tier can hand back: None, empty text, text
SubtitleTexts == {None, <<>>, <<"h","e","l","l","o"," ","w","o","r","l","d">>}
WhisperTexts  == {None, <<>>, <<"s","p","o","k","e","n"," ","w","o","r","d","s">>}

\* a str-or-None value is truthy
Truthy(t) == t # None /\ t # <<>>

RECURSIVE SplitLines(_)
\* text.splitlines() for a text whose line ends are "\n"
SplitLines(text) ==
    IF text = <<>> THEN <<>>
    ELSE LET line == UpTo(text, {"\n"})
         IN  IF Len(line) = Len(text) THEN <<line>>
             ELSE <<line>> \o SplitLines(SubSeq(text, Len(line) + 2, Len(text)))

Whitespace == {" ", "\t", "\n", "\r"}

RECURSIVE LStrip(_)
LStrip(s) == IF s # <<>> /\ Head(s) \in Whitespace THEN LStrip(Tail(s)) ELSE s

RECURSIVE RStrip(_)
RStrip(s) ==
    IF s # <<>> /\ s[Len(s)] \in Whitespace THEN RStrip(SubSeq(s, 1, Len(s) - 1)) ELSE s

\* s.strip()
Strip(s) == RStrip(LStrip(s))

RECURSIVE StripTags(_)
\* re.sub(r"<[^>]+>", "", s)
StripTags(s) ==
    IF s = <<>> THEN <<>>
    ELSE IF Head(s) = "<" /\ Len(UpTo(Tail(s), {">"})) > 0
                         /\ Len(UpTo(Tail(s), {">"})) < Len(s) - 1
         THEN StripTags(SubSeq(s, Len(UpTo(Tail(s), {">"})) + 3, Len(s)))
         ELSE <<Head(s)>> \o StripTags(Tail(s))

\* _parse_vtt: the test that skips headers, timestamps, notes, cue numbers
\* and empty lines, on a stripped line
SkippedLine(line) ==
    \/ line = <<>>
    \/ StartsWith(line, <<"W","E","B","V","T","T">>)
    \/ Len(line) >= 5 /\ IsDigit(line[1]) /\ IsDigit(line[2]) /\ line[3] = ":"
                      /\ IsDigit(line[4]) /\ IsDigit(line[5])
    \/ StartsWith(line, <<"N","O","T","E">>)
    \/ \A i \in 1..Len(line) : IsDigit(line[i])

\* _parse_vtt: the values of clean that are not empty, in the order of the
\* lines of the file
CaptionLines(text) ==
    LET stripped == [i \in 1..Len(SplitLines(text)) |-> Strip(SplitLines(text)[i])]
        kept     == SelectSeq(stripped, LAMBDA line : ~SkippedLine(line))
        clean    == [i \in 1..Len(kept) |-> Strip(StripTags(kept[i]))]
    IN  SelectSeq(clean, LAMBDA c : c # <<>>)

RECURSIVE FirstSeen_Consecutive(_)
\* a dedup that compares a line with the line before it only
FirstSeen_Consecutive(cleans) ==
    IF Len(cleans) <= 1 THEN cleans
    ELSE LET front == SubSeq(cleans, 1, Len(cleans) - 1)
             c     == cleans[Len(cleans)]
         IN  IF c = front[Len(front)] THEN FirstSeen_Consecutive(front)
             ELSE Append(FirstSeen_Consecutive(front), c)

RECURSIVE FirstSeen(_)
\* _parse_vtt: "if clean and clean not in seen": the list lines after the loop
FirstSeen(cleans) ==
    IF cleans = <<>> THEN <<>>
    ELSE LET lines == FirstSeen(SubSeq(cleans, 1, Len(cleans) - 1))
             c     == cleans[Len(cleans)]
         IN  IF \E i \in 1..Len(lines) : lines[i] = c THEN lines ELSE Append(lines, c)

\* _parse_vtt of the text of a subtitle file
_parse_vtt(text) == Join(FirstSeen(CaptionLines(text)), <<" ">>)

\* f"{n:02d}" for n >= 0
Dec2(n) == IF n < 10 THEN <<"0">> \o Dec(n) ELSE Dec(n)

\* _build_content
_build_content(meta, transcript) ==
    LET title    == Get(meta, "title", <<>>)
        c0       == Get(meta, "channel", <<>>)
        channel  == IF c0 # <<>> THEN c0 ELSE Get(meta, "uploader", <<>>)
        mins     == Get(meta, "duration", 0) \div 60
        chapters == Get(meta, "chapters", <<>>)
        desc     == Get(meta, "description", <<>>)
        parts ==
            (IF title # <<>> THEN <<<<"T","i","t","l","e",":"," ">> \o title>> ELSE <<>>)
            \o (IF channel # <<>> THEN <<<<"C","h","a","n","n","e","l",":"," ">> \o channel>> ELSE <<>>)
            \o (IF mins # 0 THEN <<<<"D","u","r","a","t","i","o","n",":"," ">> \o Dec(mins) \o <<" ","m","i","n">>>> ELSE <<>>)
            \o (IF chapters # <<>>
                THEN <<<<"\n","C","h","a","p","t","e","r","s",":">>>>
                     \o [i \in 1..Len(chapters) |->
                           LET start == Get(chapters[i], "start_time", 0)
                           IN  <<" "," ">> \o Dec(start \div 60) \o <<":">> \o Dec2(start % 60)
                               \o <<" ">> \o Get(chapters[i], "title", <<>>)]
                ELSE <<>>)
            \o (IF transcript # <<>> THEN <<<<"\n","T","r","a","n","s","c","r","i","p","t",":","\n">> \o Take(transcript, 8000)>>
                ELSE IF desc # <<>> THEN <<<<"\n","D","e","s","c","r","i","p","t","i","o","n",":","\n">> \o Take(desc, 2000)>>
                ELSE <<>>)
    IN  Join(parts, <<"\n">>)

\* youtube.fetch once _get_transcript has returned (transcript, method)
youtube_capture(url, meta, transcript, method) ==
    [ url               |-> url,
      url_type          |-> <<"y","o","u","t","u","b","e">>,
      title             |-> Get(meta, "title", <<>>),
      author            |-> Get(meta, "uploader", <<>>),
      channel           |-> Get(meta, "channel", <<>>),
      content           |-> _build_content(meta, transcript),
      transcript        |-> transcript,
      transcript_method |-> method,
      published_at      |-> Get(meta, "upload_date", <<>>),
      duration_secs     |-> Get(meta, "duration", 0),
      stats             |-> [ views    |-> Get(meta, "view_count", 0),
                              likes    |-> Get(meta, "like_count", 0),
                              comments |-> Get(meta, "comment_count", 0) ],
      thumbnail         |-> Get(meta, "thumbnail", <<>>),
      tags              |-> Take(Get(meta, "tags", <<>>), 10),
      chapters          |-> Get(meta, "chapters", <<>>) ]

\* ----------------------------------------------------------- fetchers/web.py
RECURSIVE ReplaceAll(_, _, _)
\* s.replace(old, new) for a non-empty old
ReplaceAll(s, old, new) ==
    IF Len(s) < Len(old) THEN s
    ELSE IF StartsWith(s, old) THEN new \o ReplaceAll(SubSeq(s, Len(old) + 1, Len(s)), old, new)
    ELSE <<Head(s)>> \o ReplaceAll(Tail(s), old, new)

\* urlparse(url).netloc of a url of the form scheme://netloc...
Netloc(url) ==
    IF \E i \in 1..(Len(url) - 2) : SubSeq(url, i, i + 2) = <<":","/","/">>
    THEN LET i == CHOOSE j \in 1..(Len(url) - 2) :
                    /\ SubSeq(url, j, j + 2) = <<":","/","/">>
                    /\ \A k \in 1..(j - 1) : SubSeq(url, k, k + 2) # <<":","/","/">>
         IN  UpTo(SubSeq(url, i + 3, Len(url)), {"/", "?", "#"})
    ELSE <<>>

\* what _download and the _extract_* helpers give for a page: the url after
\* redirects, and the title, author, date (None as the empty text) and the
\* readable text found in the html
Pages(url) ==
    { [final_url |-> url, title |-> <<"E","x","a","m","p","l","e">>, author |-> <<>>, published |-> <<>>,
       text |-> <<"E","x","a","m","p","l","e"," ","P","i","p","e","l","i","n","e"," ","n","o","t","e","s">>],
      [final_url |-> FinalUrl, title |-> <<>>, author |-> <<"C","y">>, published |-> <<"2","0","2","4","-","0","1","-","0","1">>,
       text |-> <<>>] }

\* web.fetch once the page is downloaded
web_capture(page, max_chars) ==
    LET final_url == page.final_url
        content   == Take(page.text, max_chars)
        domain    == ReplaceAll(Netloc(final_url), <<"w","w","w",".">>, <<>>)
    IN  [ url          |-> final_url,
          url_type     |-> <<"w","e","b">>,
          title        |-> IF page.title # <<>> THEN page.title ELSE final_url,
          author       |-> IF page.author # <<>> THEN page.author ELSE domain,
          domain       |-> domain,
          content      |-> content,
          published_at |-> page.published,
          stats        |-> EmptyDict ]

VARIABLES
    store,      \* the rows of table captures
    calls,      \* the save calls of the direct client: <<capture, now, uid>>
    run         \* run[r]: the local state of pipeline invocation r

vars == <<store, calls, run>>

Runs == 1..NumRuns

Backends == {"sqlite", "nmem", "both", "none"}

\* run(): the result dict as first built; nmem_payload None is the empty dict
InitResult(url) ==
    [ url          |-> url,
      status       |-> "ok",
      url_type     |-> None,
      title        |-> None,
      summary      |-> None,
      labels       |-> <<>>,
      importance   |-> 50,
      nmem_payload |-> EmptyDict,
      dedup        |-> [exists |-> FALSE, similar |-> <<>>],
      error        |-> None ]

\* an invocation that has not started: no locals yet.  adapters, tiers and db
\* record the fetchers called, the transcript tiers tried (with the text each
\* handed back) and the calls made on the SQLiteBackend, in order; a call
\* that raised is marked with !
IdleRun ==
    [ pc |-> "idle", url |-> <<>>, backend |-> "", result |-> EmptyDict,
      capture |-> EmptyDict, meta |-> EmptyDict, transcript |-> None, method |-> <<>>,
      summary |-> <<>>, nmem_payload |-> EmptyDict,
      adapters |-> <<>>, tiers |-> <<>>, db |-> <<>> ]

Init ==
    /\ store = {}
    /\ calls = <<>>
    /\ run = [r \in Runs |-> IdleRun]

\* run() is called with url and backend
Begin(r, url, backend) ==
    /\ run[r].pc = "idle"
    /\ run' = [run EXCEPT ![r] = [IdleRun EXCEPT !.pc = "fetch", !.url = url,
                                                 !.backend = backend,
                                                 !.result = InitResult(url)]]
    /\ UNCHANGED <<store, calls>>

\* the except branch records the error and leaves status "ok"
Fail_StatusOk(r, message) ==
    /\ run' = [run EXCEPT ![r].pc = "done",
                          ![r].result = [@ EXCEPT !["error"] = message]]
    /\ UNCHANGED <<store, calls>>

\* the except branch hands a url whose fetcher failed to the web fetcher
Fail_FallsBackToWeb(r, message) ==
    /\ run' = IF run[r].adapters # <<>> /\ run[r].adapters # <<"web">>
              THEN [run EXCEPT ![r].pc = "web", ![r].adapters = Append(@, "web")]
              ELSE [run EXCEPT ![r].pc = "done",
                               ![r].result = [@ EXCEPT !["status"] = "error",
                                                       !["error"] = message]]
    /\ UNCHANGED <<store, calls>>

\* run(), except Exception as e: the error result is returned
Fail(r, message) ==
    /\ run' = [run EXCEPT ![r].pc = "done",
                          ![r].result = [@ EXCEPT !["status"] = "error",
                                                  !["error"] = message]]
    /\ UNCHANGED <<store, calls>>

\* run(), the try body after fetch() has returned capture
Fetched(r, capture) ==
    /\ run' = [run EXCEPT ![r].pc = "summary",
                          ![r].capture = capture,
                          ![r].result = [@ EXCEPT !["url_type"] = Get(capture, "url_type", None),
                                                  !["title"] = Get(capture, "title", None)]]
    /\ UNCHANGED <<store, calls>>

\* a router that tests is_web_url first
Route_WebFirst(r) ==
    /\ run[r].pc = "fetch"
    /\ IF is_web_url(run[r].url) THEN
           /\ run' = [run EXCEPT ![r].pc = "web", ![r].adapters = Append(@, "web")]
           /\ UNCHANGED <<store, calls>>
       ELSE IF is_twitter_url(run[r].url) THEN
           /\ run' = [run EXCEPT ![r].pc = "twitter", ![r].adapters = Append(@, "twitter")]
           /\ UNCHANGED <<store, calls>>
       ELSE IF is_youtube_url(run[r].url) THEN
           /\ run' = [run EXCEPT ![r].pc = "youtube", ![r].adapters = Append(@, "youtube")]
           /\ UNCHANGED <<store, calls>>
       ELSE Fail(r, <<"U","n","s","u","p","p","o","r","t","e","d"," ","U","R","L",":"," ">> \o run[r].url)

\* a router whose last branch is the web fetcher, without the raise
Route_NoRaise(r) ==
    /\ run[r].pc = "fetch"
    /\ IF is_twitter_url(run[r].url) THEN
           /\ run' = [run EXCEPT ![r].pc = "twitter", ![r].adapters = Append(@, "twitter")]
           /\ UNCHANGED <<store, calls>>
       ELSE IF is_youtube_url(run[r].url) THEN
           /\ run' = [run EXCEPT ![r].pc = "youtube", ![r].adapters = Append(@, "youtube")]
           /\ UNCHANGED <<store, calls>>
       ELSE
           /\ run' = [run EXCEPT ![r].pc = "web", ![r].adapters = Append(@, "web")]
           /\ UNCHANGED <<store, calls>>

\* capture.fetch: the router
Route(r) ==
    /\ run[r].pc = "fetch"
    /\ IF is_twitter_url(run[r].url) THEN
           /\ run' = [run EXCEPT ![r].pc = "twitter", ![r].adapters = Append(@, "twitter")]
           /\ UNCHANGED <<store, calls>>
       ELSE IF is_youtube_url(run[r].url) THEN
           /\ run' = [run EXCEPT ![r].pc = "youtube", ![r].adapters = Append(@, "youtube")]
           /\ UNCHANGED <<store, calls>>
       ELSE IF is_web_url(run[r].url) THEN
           /\ run' = [run EXCEPT ![r].pc = "web", ![r].adapters = Append(@, "web")]
           /\ UNCHANGED <<store, calls>>
       ELSE Fail(r, <<"U","n","s","u","p","p","o","r","t","e","d"," ","U","R","L",":"," ">> \o run[r].url)

\* twitter.fetch
TwitterFetch(r) ==
    /\ run[r].pc = "twitter"
    /\ \/ /\ _extract_id(run[r].url) = NoMatch
          /\ Fail(r, <<"C","a","n","n","o","t"," ","e","x","t","r","a","c","t"," ","t","w","e","e","t"," ","I","D"," ","f","r","o","m",":"," ">> \o run[r].url)
       \/ /\ _extract_id(run[r].url) # NoMatch
          /\ Fail(r, <<"<","u","r","l","o","p","e","n"," ","e","r","r","o","r"," ","t","i","m","e","d"," ","o","u","t",">">>)
       \/ /\ _extract_id(run[r].url) # NoMatch
          /\ \E tweet \in Tweets : Fetched(r, twitter_capture(run[r].url, tweet))

\* youtube._get_metadata
YtMetadata(r) ==
    /\ run[r].pc = "youtube"
    /\ \/ Fail(r, <<"y","t","-","d","l","p"," ","m","e","t","a","d","a","t","a"," ","f","a","i","l","e","d",":"," ">>)
       \/ /\ \E meta \in Metas :
                run' = [run EXCEPT ![r].pc = "subtitles", ![r].meta = meta]
          /\ UNCHANGED <<store, calls>>

\* _get_transcript without the return after step 1: whisper runs even when
\* subtitles were found
YtSubtitles_NoReturn(r) ==
    /\ run[r].pc = "subtitles"
    /\ \E t \in SubtitleTexts :
          run' = [run EXCEPT ![r].tiers = Append(@, [tier |-> "subtitles", text |-> t]),
                             ![r].transcript = IF Truthy(t) THEN t ELSE @,
                             ![r].method = IF Truthy(t) THEN <<"s","u","b","t","i","t","l","e","s">> ELSE @,
                             ![r].pc = "whisper"]
    /\ UNCHANGED <<store, calls>>

\* youtube._get_transcript, step 1: _try_subtitles
YtSubtitles(r) ==
    /\ run[r].pc = "subtitles"
    /\ \/ /\ \E t \in SubtitleTexts :
                run' = [run EXCEPT ![r].tiers = Append(@, [tier |-> "subtitles", text |-> t]),
                                   ![r].transcript = IF Truthy(t) THEN t ELSE @,
                                   ![r].method = IF Truthy(t) THEN <<"s","u","b","t","i","t","l","e","s">> ELSE @,
                                   ![r].pc = IF Truthy(t) THEN "yt_return" ELSE "whisper"]
          /\ UNCHANGED <<store, calls>>
       \/ /\ run' = [run EXCEPT ![r].tiers = Append(@, [tier |-> "subtitles!", text |-> None]),
                                ![r].pc = "done",
                                ![r].result = [@ EXCEPT !["status"] = "error",
                                                        !["error"] = <<"C","o","m","m","a","n","d"," ","t","i","m","e","d"," ","o","u","t"," ","a","f","t","e","r"," ","3","0"," ","s","e","c","o","n","d","s">>]]
          /\ UNCHANGED <<store, calls>>

\* youtube._get_transcript, step 2: _try_whisper
YtWhisper(r) ==
    /\ run[r].pc = "whisper"
    /\ \/ /\ \E t \in WhisperTexts :
                run' = [run EXCEPT ![r].tiers = Append(@, [tier |-> "whisper", text |-> t]),
                                   ![r].transcript = IF Truthy(t) THEN t ELSE @,
                                   ![r].method = IF Truthy(t) THEN <<"w","h","i","s","p","e","r">> ELSE @,
                                   ![r].pc = IF Truthy(t) THEN "yt_return" ELSE "description"]
          /\ UNCHANGED <<store, calls>>
       \/ /\ run' = [run EXCEPT ![r].tiers = Append(@, [tier |-> "whisper!", text |-> None]),
                                ![r].pc = "done",
                                ![r].result = [@ EXCEPT !["status"] = "error",
                                                        !["error"] = <<"C","o","m","m","a","n","d"," ","t","i","m","e","d"," ","o","u","t"," ","a","f","t","e","r"," ","1","2","0"," ","s","e","c","o","n","d","s">>]]
          /\ UNCHANGED <<store, calls>>

\* youtube._get_transcript, step 3: the description
YtDescription(r) ==
    /\ run[r].pc = "description"
    /\ LET desc == Get(run[r].meta, "description", <<>>)
           text == IF desc # <<>> THEN Take(desc, 3000) ELSE <<>>
       IN  run' = [run EXCEPT ![r].tiers = Append(@, [tier |-> "description", text |-> text]),
                              ![r].transcript = text,
                              ![r].method = <<"d","e","s","c","r","i","p","t","i","o","n","_","o","n","l","y">>,
                              ![r].pc = "yt_return"]
    /\ UNCHANGED <<store, calls>>

\* youtube.fetch: the capture dict is built and returned
YtReturn(r) ==
    /\ run[r].pc = "yt_return"
    /\ Fetched(r, youtube_capture(run[r].url, run[r].meta, run[r].transcript, run[r].method))

\* web.fetch
WebFetch(r) ==
    /\ run[r].pc = "web"
    /\ \/ Fail(r, <<"<","u","r","l","o","p","e","n"," ","e","r","r","o","r"," ","t","i","m","e","d"," ","o","u","t",">">>)
       \/ \E page \in Pages(run[r].url) : Fetched(r, web_capture(page, 6000))

\* run() steps 2 and 3: auto_summary, format_for_nmem.  Neither call is inside
\* a try: a TypeError they raise leaves run()
Format(r) ==
    /\ run[r].pc = "summary"
    /\ IF auto_summary_raises(run[r].capture) \/ format_for_nmem_raises(run[r].capture)
       THEN run' = [run EXCEPT ![r].pc = "raised"]
       ELSE LET summary      == auto_summary(run[r].capture, DefaultMaxLen)
                nmem_payload == format_for_nmem(run[r].capture, summary)
            IN  run' = [run EXCEPT ![r].summary = summary,
                                   ![r].nmem_payload = nmem_payload,
                                   ![r].result = [@ EXCEPT !["summary"] = summary,
                                                           !["nmem_payload"] = nmem_payload,
                                                           !["labels"] = nmem_payload.labels,
                                                           !["importance"] = nmem_payload.importance],
                                   ![r].pc = IF run[r].backend \in {"sqlite", "both"}
                                             THEN "db_open" ELSE "output"]
    /\ UNCHANGED <<store, calls>>

\* an sqlite3 call raises (database is locked, unable to open database file):
\* nothing in run() catches it
Raise(r, call) ==
    /\ run' = [run EXCEPT ![r].pc = "raised", ![r].db = Append(@, call)]
    /\ UNCHANGED <<store, calls>>

\* run() step 4: SQLiteBackend(db_path)
DbOpen(r) ==
    /\ run[r].pc = "db_open"
    /\ \/ /\ run' = [run EXCEPT ![r].pc = "dedup", ![r].db = Append(@, "open")]
          /\ UNCHANGED <<store, calls>>
       \/ Raise(r, "open!")

\* run() without the "if not dedup['exists']" test: the save always follows
Dedup_AlwaysSave(r) ==
    /\ run[r].pc = "dedup"
    /\ LET dedup == [exists |-> exists(store, run[r].url), similar |-> <<>>]
       IN  run' = [run EXCEPT ![r].result = [@ EXCEPT !["dedup"] = dedup],
                              ![r].db = Append(@, "exists"),
                              ![r].pc = "save"]
    /\ UNCHANGED <<store, calls>>

\* check_dedup_sqlite(url, db)
Dedup(r) ==
    /\ run[r].pc = "dedup"
    /\ \/ /\ LET dedup == [exists |-> exists(store, run[r].url), similar |-> <<>>]
             IN  run' = [run EXCEPT ![r].result = [@ EXCEPT !["dedup"] = dedup],
                                    ![r].db = Append(@, "exists"),
                                    ![r].pc = IF dedup.exists THEN "close" ELSE "save"]
          /\ UNCHANGED <<store, calls>>
       \/ Raise(r, "exists!")

\* a save whose INSERT is applied before the commit raises
Save_RaiseAfterWrite(r) ==
    /\ run[r].pc = "save"
    /\ \E now \in Times :
          LET save_capture == Merge(run[r].capture, run[r].nmem_payload)
              saved        == save(store, save_capture, now)
          IN  /\ store' = saved.rows
              /\ \/ run' = [run EXCEPT
                              ![r].result = Merge(@, [sqlite_id |-> saved.uid]),
                              ![r].db = Append(@, "save"),
                              ![r].pc = "close"]
                 \/ run' = [run EXCEPT ![r].pc = "raised", ![r].db = Append(@, "save!")]
    /\ UNCHANGED calls

\* db.save({**capture, **nmem_payload})
Save(r) ==
    /\ run[r].pc = "save"
    /\ \/ /\ \E now \in Times :
                LET save_capture == Merge(run[r].capture, run[r].nmem_payload)
                    saved        == save(store, save_capture, now)
                IN  /\ store' = saved.rows
                    /\ run' = [run EXCEPT
                                 ![r].result = Merge(@, [sqlite_id |-> saved.uid]),
                                 ![r].db = Append(@, "save"),
                                 ![r].pc = "close"]
          /\ UNCHANGED calls
       \/ Raise(r, "save!")

\* db.close()
Close(r) ==
    /\ run[r].pc = "close"
    /\ run' = [run EXCEPT ![r].pc = "output", ![r].db = Append(@, "close")]
    /\ UNCHANGED <<store, calls>>

\* run() step 5: the result is printed and returned
Output(r) ==
    /\ run[r].pc = "output"
    /\ run' = [run EXCEPT ![r].pc = "done"]
    /\ UNCHANGED <<store, calls>>

\* the caller has the result (or the exception); the locals are gone
Exit(r) ==
    /\ run[r].pc \in {"done", "raised"}
    /\ run' = [run EXCEPT ![r] = [IdleRun EXCEPT !.pc = "exited"]]
    /\ UNCHANGED <<store, calls>>

Step(r) ==
    \/ Route(r) \/ TwitterFetch(r)
    \/ YtMetadata(r) \/ YtSubtitles(r) \/ YtWhisper(r) \/ YtDescription(r) \/ YtReturn(r)
    \/ WebFetch(r)
    \/ Format(r) \/ DbOpen(r) \/ Dedup(r) \/ Save(r) \/ Close(r) \/ Output(r)
    \/ Exit(r)

\* the host of the specification: single-shot processes, one after the other
Start(r) ==
    /\ \A q \in Runs : (q < r => run[q].pc = "exited") /\ (q > r => run[q].pc = "idle")
    /\ \E url \in URLs, backend \in Backends : Begin(r, url, backend)

Next == \E r \in Runs : Start(r) \/ Step(r)

Spec == Init /\ [][Next]_vars

\* ---- a host that runs invocations for one web url at the same time, each in
\* a process of its own on the same database file
ConcURLs == {WebUrl}

StartConc(r) ==
    /\ \A q \in Runs : q < r => run[q].pc # "idle"
    /\ \E url \in ConcURLs : Begin(r, url, "sqlite")

StepConc(r) ==
    \/ Route(r) \/ WebFetch(r)
    \/ Format(r) \/ DbOpen(r) \/ Dedup(r) \/ Save(r) \/ Close(r) \/ Output(r)
    \/ Exit(r)

NextConc == \E r \in Runs : StartConc(r) \/ StepConc(r)

SpecConc == Init /\ [][NextConc]_vars

\* ---- the concurrent runs, and beside them other processes that save
\* captures on the same database file
OtherUrls == {ChannelUrl}

OtherCaptures ==
    { [ url |-> u, url_type |-> <<"w","e","b">>, title |-> <<"O","t","h","e","r">>, content |-> <<"o","t","h","e","r"," ","t","e","x","t">> ] :
        u \in OtherUrls }

\* the clock of the other process: captured_at is no key of the table
OtherTime == 1

OtherSave ==
    /\ \E capture \in OtherCaptures :
          store' = save(store, capture, OtherTime).rows
    /\ UNCHANGED <<calls, run>>

NextMix == NextConc \/ OtherSave

SpecMix == Init /\ [][NextMix]_vars

\* ---- a client that calls SQLiteBackend.save directly
ClientUrls == {TweetUrl, WebUrl, FinalUrl}

\* the dicts the client saves: a full one, and one that leaves keys out
ClientCaptures ==
    { [ url |-> u, url_type |-> <<"w","e","b">>, title |-> <<"O","n","e">>, author |-> <<"C","y">>,
        content |-> <<"f","i","r","s","t"," ","t","e","x","t">>, summary |-> <<"f","i","r","s","t">>, labels |-> <<<<"s","o","u","r","c","e","-","w","e","b">>, <<"e","n","g","i","n","e","e","r","i","n","g">>>>,
        importance |-> 80, published_at |-> <<"2","0","2","4","-","0","1","-","0","1">>,
        stats |-> [views |-> 7, likes |-> 1], domain |-> <<"e",".","i","o">> ] : u \in ClientUrls }
    \cup
    { [ url |-> u, url_type |-> <<"t","w","i","t","t","e","r">>, title |-> <<"T","w","o">>, content |-> <<"s","e","c","o","n","d"," ","t","e","x","t">> ]
        : u \in ClientUrls }

ClientSave ==
    /\ Len(calls) < MaxSaves
    /\ \E capture \in ClientCaptures, now \in Times :
          LET saved == save(store, capture, now)
          IN  /\ store' = saved.rows
              /\ calls' = Append(calls, [capture |-> capture, now |-> now, uid |-> saved.uid])
    /\ UNCHANGED run

NextStore == ClientSave

SpecStore == Init /\ [][NextStore]_vars

\* ---- a host that runs the pipeline with the sqlite backend for one url after
\* the other, the same url again too, and keeps what each run ended with in
\* calls
HostURLs == {TweetUrl, VideoUrl, WebUrl}

\* answers of the FxTwitter API for a status: a long post, whose full text
\* is in note_tweet, and two posts answered without the author or with the
\* handle "i" of the path /i/status/<id>, whose text ends in the attribution
Posts ==
    { [ author     |-> [name |-> <<"L","e","e">>, screen_name |-> <<"l","e","e">>],
        text       |-> <<"A"," ","l","o","n","g"," ","p","o","s","t">>,
        note_tweet |-> [text |-> Repeat(<<"w">>, ContentCap + 1)],
        created_at |-> <<"M","o","n"," ","J","a","n"," ","0","1"," ","1","0",":","0","0",":","0","0"," ","+","0","0","0","0"," ","2","0","2","4">>,
        views |-> 5, likes |-> 2, retweets |-> 0, bookmarks |-> 0, replies |-> 0 ],
      [ text       |-> <<"S","h","i","p"," ","i","t"," ","(","@","r","e","a","l",")"," ","J","a","n"," ","1",","," ","2","0","2","4">>,
        created_at |-> <<"M","o","n"," ","J","a","n"," ","0","1"," ","1","0",":","0","0",":","0","0"," ","+","0","0","0","0"," ","2","0","2","4">>,
        views |-> 5, likes |-> 2, retweets |-> 0, bookmarks |-> 0, replies |-> 0 ],
      [ author     |-> [name |-> <<>>, screen_name |-> <<"i">>],
        text       |-> <<"S","h","i","p"," ","i","t"," ","(","@","r","e","a","l",")"," ","J","a","n"," ","1",","," ","2","0","2","4">>,
        created_at |-> <<"M","o","n"," ","J","a","n"," ","0","1"," ","1","0",":","0","0",":","0","0"," ","+","0","0","0","0"," ","2","0","2","4">>,
        views |-> 5, likes |-> 2, retweets |-> 0, bookmarks |-> 0, replies |-> 0 ] }

\* twitter.fetch, the API answering with one of Posts
PostFetch(r) ==
    /\ run[r].pc = "twitter"
    /\ _extract_id(run[r].url) # NoMatch
    /\ \E tweet \in Posts : Fetched(r, twitter_capture(run[r].url, tweet))

\* run() has returned or raised: the host notes the url, how the run ended
\* and what the result says of the store
Finish(r) ==
    /\ run[r].pc \in {"done", "raised"}
    /\ calls' = Append(calls,
                       [ url    |-> run[r].url,
                         status |-> IF run[r].pc = "raised" THEN "raised"
                                    ELSE run[r].result["status"],
                         exists |-> run[r].result["dedup"].exists,
                         saved  |-> "sqlite_id" \in DOMAIN run[r].result ])
    /\ run' = [run EXCEPT ![r] = [IdleRun EXCEPT !.pc = "exited"]]
    /\ UNCHANGED store

StartHost(r) ==
    /\ \A q \in Runs : (q < r => run[q].pc = "exited") /\ (q > r => run[q].pc = "idle")
    /\ \E url \in HostURLs : Begin(r, url, "sqlite")

StepHost(r) ==
    \/ Route(r) \/ PostFetch(r)
    \/ YtMetadata(r) \/ YtSubtitles(r) \/ YtWhisper(r) \/ YtDescription(r) \/ YtReturn(r)
    \/ WebFetch(r)
    \/ Format(r) \/ DbOpen(r) \/ Dedup(r) \/ Save(r) \/ Close(r) \/ Output(r)
    \/ Finish(r)

NextHost == \E r \in Runs : StartHost(r) \/ StepHost(r)

SpecHost == Init /\ [][NextHost]_vars

\* ---- a client that makes one call of one function of the pipeline; calls
\* holds the call: its arguments and what it handed back
ViewValues     == {0, 10000, 10001, 100000, 100001, 500000, 500001, 1000000, 1000001}
BookmarkValues == {0, 2000, 2001, 5000, 5001}
LikeValues     == {0, 500, 501, 5000, 5001}

Kinds == {<<"t","w","i","t","t","e","r">>, <<"y","o","u","t","u","b","e">>, <<"w","e","b">>}

\* the captures scored: every kind with every combination of counters, and
\* for every kind a capture with an empty stats dict and one without stats
ScoreCaptures ==
    { [url_type |-> kind, stats |-> [views |-> v, bookmarks |-> b, likes |-> l]] :
        kind \in Kinds, v \in ViewValues, b \in BookmarkValues, l \in LikeValues }
    \cup { [url_type |-> kind, stats |-> EmptyDict] : kind \in Kinds }
    \cup { [url_type |-> kind] : kind \in Kinds }
    \cup { [stats |-> [views |-> v]] : v \in ViewValues }

ScoreCall ==
    /\ calls = <<>>
    /\ \E capture \in ScoreCaptures :
          calls' = <<[fn |-> "compute_importance", capture |-> capture,
                      out |-> compute_importance(capture)]>>
    /\ UNCHANGED <<store, run>>

\* titles and summaries that name no topic, one, five, six and all ten
LabelTitles == {<<>>, <<"E","x","a","m","p","l","e">>, <<"O","p","e","n","C","l","a","w"," ","L","L","M">>}

LabelSummaries ==
    { <<>>,
      <<"P","y","t","h","o","n"," ","A","P","I">>,
      <<"a"," ","R","o","b","o","t"," ","o","n"," ","x",".","c","o","m",":"," ","h","o","u","s","i","n","g"," ","a","n","d"," ","a"," ","s","c","h","o","o","l">>,
      <<"c","l","a","u","d","e"," ","a","g","e","n","t"," ","r","o","b","o","t"," ","t","w","e","e","t"," ","p","r","o","p","e","r","t","y"," ","s","c","h","o","o","l">>,
      <<"c","l","a","u","d","e"," ","a","g","e","n","t"," ","r","o","b","o","t"," ","t","w","e","e","t"," ","p","r","o","p","e","r","t","y"," ","s","c","h","o","o","l"," ","v","i","s","a"," ","c","o","n","t","e","n","t"," ","c","o","d","e"," ","b","r","i","d","g","e">> }

\* the captures labelled: every kind, and one without url_type
LabelCaptures ==
    { [url_type |-> kind, title |-> title] : kind \in Kinds, title \in LabelTitles }
    \cup { [title |-> title] : title \in LabelTitles }
    \cup { [url_type |-> kind] : kind \in Kinds }

LabelCall ==
    /\ calls = <<>>
    /\ \E capture \in LabelCaptures, summary \in LabelSummaries :
          calls' = <<[fn |-> "_auto_labels", capture |-> capture, summary |-> summary,
                      out |-> _auto_labels(capture, summary)]>>
    /\ UNCHANGED <<store, run>>

\* lines of a subtitle file: header, cue timing, cue number, empty line, and
\* cue texts, with tags and with spaces around them
VttLines ==
    { <<"W","E","B","V","T","T">>, <<"0","0",":","0","1",".","0","0","0"," ","-","-",">"," ","0","0",":","0","2",".","0","0","0">>, <<"7">>, <<>>,
      <<"h","e","l","l","o">>, <<"<","c",">","h","e","l","l","o","<","/","c",">">>, <<" ","w","o","r","l","d">> }

RECURSIVE VttFiles(_)
\* the files of n lines
VttFiles(n) ==
    IF n = 0 THEN {<<>>}
    ELSE { <<line>> \o file : line \in VttLines, file \in VttFiles(n - 1) }

\* vtt_path.read_text(...): the lines of a file, each ended by "\n"
VttTexts ==
    { Join([i \in 1..Len(file) |-> file[i] \o <<"\n">>], <<>>) :
        file \in UNION { VttFiles(n) : n \in 0..MaxVttLines } }

ParseCall ==
    /\ calls = <<>>
    /\ \E text \in VttTexts :
          calls' = <<[fn |-> "_parse_vtt", text |-> text,
                      lines |-> FirstSeen(CaptionLines(text)),
                      out |-> _parse_vtt(text)]>>
    /\ UNCHANGED <<store, run>>

\* lengths of a content around the cuts of auto_summary
ContentLens == {0, 199, 200, 201, 299, 300, 301, 450}

\* the captures summarized: of every kind, with short and long contents,
\* names and quoted tweets
SummaryCaptures ==
    { [ url_type |-> <<"t","w","i","t","t","e","r">>, screen_name |-> sn, content |-> Repeat(<<"w">>, n),
        stats |-> [views |-> v, likes |-> 5001, bookmarks |-> 5001],
        quote_tweet |-> qt ] :
        sn \in {<<>>, <<"b","o","b">>, <<"a","_","l","o","n","g","_","h","a","n","d","l","e","_","x">>}, n \in ContentLens,
        v \in {0, 1000001},
        qt \in {<<>>, <<[screen_name |-> <<"a","_","l","o","n","g","_","h","a","n","d","l","e","_","y">>, text |-> Repeat(<<"q">>, 120)]>>} }
    \cup
    { [ url_type |-> <<"y","o","u","t","u","b","e">>, channel |-> ch, author |-> <<"A","n","n">>, duration_secs |-> 125,
        transcript_method |-> m, transcript |-> Repeat(<<"t">>, n),
        content |-> Repeat(<<"c">>, 350) ] :
        ch \in {<<>>, <<"A","n","n","T","V">>, Repeat(<<"A","n","n","T","V"," ">>, 15)}, n \in ContentLens,
        m \in {<<"s","u","b","t","i","t","l","e","s">>, <<"d","e","s","c","r","i","p","t","i","o","n","_","o","n","l","y">>} }
    \cup
    { [ url_type |-> <<"w","e","b">>, domain |-> <<"e",".","i","o">>, author |-> a, content |-> Repeat(<<"w">>, n) ] :
        a \in {<<>>, <<"e",".","i","o">>, <<"C","y">>, Repeat(<<"C","y"," ">>, 40)}, n \in ContentLens }
    \cup
    { [ content |-> Repeat(<<"w">>, n) ] : n \in ContentLens }

SummaryCall ==
    /\ calls = <<>>
    /\ \E capture \in SummaryCaptures :
          calls' = <<[fn |-> "auto_summary", capture |-> capture,
                      out |-> auto_summary(capture, DefaultMaxLen)]>>
    /\ UNCHANGED <<store, run>>

NextUnit == ScoreCall \/ LabelCall \/ ParseCall \/ SummaryCall

SpecUnit == Init /\ [][NextUnit]_vars

\* ------------------------------------------------------------------ claims
Last(s) == s[Len(s)]

\* invocation r has started and its caller does not have the result yet
Live(r) == run[r].pc \notin {"idle", "exited"}

\* run() of invocation r has returned its result dict
Returned(r) == run[r].pc = "done"

\* the fetch step of invocation r failed: run() returned without a capture
FetchFailed(r) == Returned(r) /\ DOMAIN run[r].capture = {}

\* C1: when the fetch step of run() fails, the run ends with status "error"
\* and an error that is not None, no call at all is made on the SQLiteBackend
\* (it is not opened, exists() is not computed, nothing is saved), and
\* dedup.exists keeps its initial value False.
C1_FetchFailureIsError ==
    \A r \in Runs :
        FetchFailed(r) =>
            /\ run[r].result["status"] = "error"
            /\ run[r].result["error"] # None
            /\ run[r].db = <<>>
            /\ run[r].result["dedup"].exists = FALSE
            /\ "sqlite_id" \notin DOMAIN run[r].result

\* a fetcher was called and raised while the table already held a row
C1_Witness ==
    \E r \in Runs : FetchFailed(r) /\ run[r].adapters # <<>> /\ store # {}

\* C2: in a run with the sqlite backend, save is only ever called right after
\* exists(url) has returned, and it is called exactly when exists(url) returned
\* False; a run in which exists(url) returned True ends with status "ok",
\* dedup.exists True, no sqlite_id and no save.
C2_SaveIffNotExists ==
    \A r \in Runs :
        Live(r) =>
            LET db == run[r].db
            IN  /\ \A i \in 1..Len(db) :
                     db[i] \in {"save", "save!"} => i > 1 /\ db[i - 1] = "exists"
                /\ run[r].pc = "save" =>
                     /\ Last(db) = "exists"
                     /\ ~exists(store, run[r].url)
                     /\ run[r].result["dedup"].exists = FALSE
                /\ (run[r].pc = "close" /\ Last(db) = "exists") =>
                     /\ exists(store, run[r].url)
                     /\ run[r].result["dedup"].exists = TRUE
                /\ (\E i \in 1..Len(db) : db[i] = "exists") /\ run[r].pc # "save" =>
                     ((\E i \in 1..Len(db) : db[i] \in {"save", "save!"})
                        <=> run[r].result["dedup"].exists = FALSE)
                /\ (Returned(r) /\ run[r].result["dedup"].exists) =>
                     /\ run[r].result["status"] = "ok"
                     /\ "sqlite_id" \notin DOMAIN run[r].result
                     /\ \A i \in 1..Len(db) : db[i] \notin {"save", "save!"}

\* a run returned after exists(url) answered True
C2_Witness ==
    \E r \in Runs :
        /\ Returned(r)
        /\ run[r].backend \in {"sqlite", "both"}
        /\ run[r].result["dedup"].exists
        /\ run[r].db = <<"open", "exists", "close">>

\* C3: two saves of captures with the same url return the same id, and after
\* the later one the table holds exactly one row for that url, every column
\* of which is what that later save wrote: nothing of the earlier row is kept.
C3_SaveIdempotent ==
    /\ \A i, j \in 1..Len(calls) :
         calls[i].capture["url"] = calls[j].capture["url"] => calls[i].uid = calls[j].uid
    /\ calls # <<>> =>
         LET last == Last(calls)
             c    == last.capture
             mine == {row \in store : row.url = c["url"]}
         IN  /\ Cardinality(mine) = 1
             /\ \A row \in mine :
                  /\ row.id = last.uid
                  /\ row.captured_at = last.now
                  /\ row.url_type = Get(c, "url_type", <<"w","e","b">>)
                  /\ row.title = Get(c, "title", <<>>)
                  /\ row.author = Get(c, "author", <<>>)
                  /\ row.content = Get(c, "content", <<>>)
                  /\ row.summary = Get(c, "summary", <<>>)
                  /\ row.labels = JsonList(Get(c, "labels", <<>>))
                  /\ row.importance = Get(c, "importance", 50)
                  /\ row.published_at = Get(c, "published_at", <<>>)
                  /\ row.stats_json = JsonStats(Get(c, "stats", EmptyDict))
                  /\ row.extra_json = Without(c, Promoted)

\* the same url was saved twice, with other fields and at another time
C3_Witness ==
    /\ Len(calls) = 2
    /\ calls[1].capture["url"] = calls[2].capture["url"]
    /\ calls[1].capture # calls[2].capture
    /\ calls[1].now # calls[2].now
    /\ Cardinality(store) = 1

\* C4: after any sequence of saves, exists(u) is True for every url u that
\* has been saved and False for every url that has not.
C4_ExistsIffSaved ==
    \A u \in ClientUrls :
        exists(store, u) <=> \E i \in 1..Len(calls) : calls[i].capture["url"] = u

\* C5: no two concurrent runs for the same url both get False from
\* exists(url) and both save.
C5_NoDoubleSave ==
    \A r1, r2 \in Runs :
        (r1 # r2 /\ Live(r1) /\ Live(r2) /\ run[r1].url = run[r2].url) =>
            ~ /\ \E i \in 1..Len(run[r1].db) : run[r1].db[i] = "save"
              /\ \E i \in 1..Len(run[r2].db) : run[r2].db[i] = "save"
              /\ run[r1].result["dedup"].exists = FALSE
              /\ run[r2].result["dedup"].exists = FALSE

\* C6: the row a successful run has saved holds the summary, labels and
\* importance that the result dict of that run holds.
C6_StoredMatchesResult ==
    \A r \in Runs :
        (Returned(r) /\ "sqlite_id" \in DOMAIN run[r].result) =>
            \A row \in store :
                row.id = run[r].result["sqlite_id"] =>
                    /\ row.summary = run[r].result["summary"]
                    /\ row.labels = JsonList(run[r].result["labels"])
                    /\ row.importance = run[r].result["importance"]

\* url matches neither the tweet nor the video pattern and has no http(s) scheme
Unsupported(url) ==
    /\ ~is_twitter_url(url)
    /\ ~is_youtube_url(url)
    /\ ~StartsWith(url, <<"h","t","t","p",":","/","/">>)
    /\ ~StartsWith(url, <<"h","t","t","p","s",":","/","/">>)

\* C7: for a url that matches neither the tweet nor the video pattern and
\* does not start with http:// or https://, run() ends with status "error"
\* once the router has run; no fetcher is called and no call is made on the
\* SQLiteBackend.
C7_UnsupportedIsError ==
    \A r \in Runs :
        (Live(r) /\ run[r].pc # "fetch" /\ Unsupported(run[r].url)) =>
            /\ Returned(r)
            /\ run[r].result["status"] = "error"
            /\ run[r].result["error"] # None
            /\ run[r].adapters = <<>>
            /\ run[r].db = <<>>

\* an unsupported url was given to run() when the table already held a row
C7_Witness ==
    \E r \in Runs : Returned(r) /\ Unsupported(run[r].url) /\ store # {}

\* C8: the router calls the fetcher of the first pattern that matches, in the
\* order tweet, video, http(s): a tweet url goes to the twitter fetcher only
\* and a video url to the youtube fetcher only, though both are web urls too.
C8_RoutingPriority ==
    \A r \in Runs :
        (Live(r) /\ run[r].pc # "fetch") =>
            LET url == run[r].url
            IN  /\ is_twitter_url(url) => run[r].adapters = <<"twitter">>
                /\ (~is_twitter_url(url) /\ is_youtube_url(url)) =>
                     run[r].adapters = <<"youtube">>
                /\ (~is_twitter_url(url) /\ ~is_youtube_url(url) /\ is_web_url(url)) =>
                     run[r].adapters = <<"web">>

\* a url that is a tweet url and a web url was routed
C8_Witness ==
    \E r \in Runs :
        /\ Returned(r)
        /\ is_twitter_url(run[r].url) /\ is_web_url(run[r].url)
        /\ run[r].adapters = <<"twitter">>

\* C9: a run calls at most one fetcher, once; after the fetcher has failed the
\* run calls no fetcher again.
C9_NoRetry ==
    [][ \A r \in Runs :
          /\ Len(run'[r].adapters) <= 1
          /\ (Live(r) /\ run[r].result["status"] = "error") =>
               \/ run'[r].adapters = run[r].adapters
               \/ run'[r].pc = "exited" ]_vars

\* the twitter fetcher failed on a url that the web fetcher would accept
C9_Witness ==
    \E r \in Runs :
        /\ FetchFailed(r)
        /\ run[r].adapters = <<"twitter">>
        /\ is_web_url(run[r].url)

TierOrder == <<"subtitles", "whisper", "description">>

\* the mark of a tier that raised
TierRaised == <<"subtitles!", "whisper!", "description!">>

MethodOf(tier) ==
    CASE tier = "subtitles" -> <<"s","u","b","t","i","t","l","e","s">>
      [] tier = "whisper" -> <<"w","h","i","s","p","e","r">>
      [] tier = "description" -> <<"d","e","s","c","r","i","p","t","i","o","n","_","o","n","l","y">>

\* C10: the tiers are tried in the order subtitles, whisper, description; a
\* tier is tried only after every earlier one handed back nothing; none is
\* tried after one handed back text; and the transcript and the method of the
\* capture are the text and the name of the last tier tried.
C10_TierOrder ==
    \A r \in Runs :
        LET tiers == run[r].tiers
        IN  /\ Len(tiers) <= 3
            /\ \A i \in 1..Len(tiers) :
                 /\ tiers[i].tier \in {TierOrder[i], TierRaised[i]}
                 /\ i < Len(tiers) => tiers[i].tier = TierOrder[i] /\ ~Truthy(tiers[i].text)
            /\ run[r].pc = "yt_return" =>
                 /\ tiers # <<>>
                 /\ Last(tiers).tier \in {"subtitles", "whisper"} => Truthy(Last(tiers).text)
                 /\ run[r].transcript = Last(tiers).text
                 /\ run[r].method = MethodOf(Last(tiers).tier)
            /\ (DOMAIN run[r].capture # {} /\ run[r].capture["url_type"] = <<"y","o","u","t","u","b","e">>) =>
                 /\ run[r].capture["transcript"] = Last(tiers).text
                 /\ run[r].capture["transcript_method"] = MethodOf(Last(tiers).tier)

\* whisper handed back text after subtitles handed back none
C10_Witness ==
    \E r \in Runs :
        /\ Returned(r)
        /\ Len(run[r].tiers) = 2
        /\ Get(run[r].capture, "transcript_method", None) = <<"w","h","i","s","p","e","r">>
\* yt-dlp has answered with the metadata of the video of invocation r
HasMetadata(r) == DOMAIN run[r].meta # {}

\* C11: once _get_metadata has returned, youtube.fetch does not raise: whatever
\* a tier does (non-zero exit, no output file, timeout), the tiers fall
\* through to the description and fetch returns a capture that records its
\* transcript_method; the run does not end in the except branch.
C11_VideoNeverFailsAfterMetadata ==
    \A r \in Runs :
        (HasMetadata(r) /\ Returned(r)) =>
            /\ run[r].result["status"] = "ok"
            /\ "transcript_method" \in DOMAIN run[r].capture
\* the fetcher of invocation r returned a capture whose content is empty
EmptyContent(r) ==
    DOMAIN run[r].capture # {} /\ Get(run[r].capture, "content", <<>>) = <<>>

\* C12: a run whose fetcher returned a capture with empty content ends with
\* status "error" and makes no save; the table never holds a row whose
\* content is empty.
C12_EmptyResultIsError ==
    /\ \A r \in Runs :
         EmptyContent(r) =>
            /\ \A i \in 1..Len(run[r].db) : run[r].db[i] # "save"
            /\ Returned(r) => run[r].result["status"] = "error"
    /\ \A row \in store : row.content # <<>>
\* the marks of the SQLiteBackend calls that raised
StorageFailures == {"open!", "exists!", "save!"}

\* C13: a run ends by returning a result dict with status "ok" or "error"; a
\* failure before the SQLiteBackend is used (in fetch, auto_summary or
\* format_for_nmem) is returned as status "error" with an error that is not
\* None, and no call was made on the store.
C13_FailureIsErrorResult ==
    \A r \in Runs :
        /\ run[r].pc = "raised" =>
              run[r].db # <<>> /\ Last(run[r].db) \in StorageFailures
        /\ Returned(r) =>
              /\ run[r].result["status"] \in {"ok", "error"}
              /\ run[r].result["status"] = "error" =>
                    run[r].result["error"] # None /\ run[r].db = <<>>

\* C17: every counter of the stats of a fetched capture is a number (a
\* counter answered as null is 0), and no run leaves auto_summary or
\* format_for_nmem by a TypeError.
C17_StatsAreNumbers ==
    \A r \in Runs :
        /\ LET stats == Get(run[r].capture, "stats", EmptyDict)
           IN  \A k \in DOMAIN stats : stats[k] # Null
        /\ (run[r].pc = "raised" /\ DOMAIN run[r].capture # {}) => run[r].db # <<>>
\* db.save of invocation r raised
SaveFailed(r) ==
    run[r].pc = "raised" /\ run[r].db # <<>> /\ Last(run[r].db) = "save!"

\* C14: when db.save raises, the run ends with that exception (no result
\* dict, no sqlite_id), the step leaves the table as it was, and the table
\* holds no row for the url of the run, as before the run.
C14_SaveFailureLeavesStore ==
    [][ \A r \in Runs :
          /\ (run[r].pc = "save" /\ run'[r].pc = "raised") =>
                /\ store' = store
                /\ Last(run'[r].db) = "save!"
                /\ ~exists(store', run[r].url)
                /\ "sqlite_id" \notin DOMAIN run'[r].result
          /\ SaveFailed(r) =>
                /\ store' = store
                /\ run'[r].pc \in {"raised", "exited"} ]_vars

\* db.save raised while the table held the row of an earlier run
C14_Witness ==
    \E r \in Runs : SaveFailed(r) /\ store # {}
\* the last call of the client was a call of fn
Called(fn) == calls # <<>> /\ calls[1].fn = fn

\* stat k of a capture as the scorer reads it
StatOf(capture, k) == Get(Get(capture, "stats", EmptyDict), k, 0)

\* C15: the importance is the decision table of the kind, first match wins,
\* each comparison strict: tweet 0.9 if views > 500000 or bookmarks > 5000,
\* else 0.8 if views > 100000 or bookmarks > 2000 or likes > 5000, else 0.65
\* if views > 10000 or likes > 500, else 0.5; video 0.8 if views > 1000000,
\* else 0.65 if views > 100000, else 0.5; web 0.5 whatever its stats.
C15_DecisionTable ==
    Called("compute_importance") =>
        LET c    == calls[1].capture
            out  == calls[1].out
            kind == Get(c, "url_type", <<"w","e","b">>)
            v    == StatOf(c, "views")
            b    == StatOf(c, "bookmarks")
            l    == StatOf(c, "likes")
            top    == v > 500000 \/ b > 5000
            second == v > 100000 \/ b > 2000 \/ l > 5000
            third  == v > 10000 \/ l > 500
        IN  /\ out \in {50, 65, 80, 90}
            /\ kind = <<"t","w","i","t","t","e","r">> =>
                  /\ out = 90 <=> top
                  /\ out = 80 <=> ~top /\ second
                  /\ out = 65 <=> ~top /\ ~second /\ third
            /\ kind = <<"y","o","u","t","u","b","e">> =>
                  /\ out = 80 <=> v > 1000000
                  /\ out = 65 <=> v <= 1000000 /\ v > 100000
                  /\ out # 90
            /\ kind = <<"w","e","b">> => out = 50

\* a tweet with views, bookmarks and likes each exactly at a threshold of the
\* top tier was scored 0.8
C15_Witness ==
    /\ Called("compute_importance")
    /\ Get(calls[1].capture, "url_type", <<"w","e","b">>) = <<"t","w","i","t","t","e","r">>
    /\ StatOf(calls[1].capture, "views") = 500000
    /\ StatOf(calls[1].capture, "bookmarks") = 5000
    /\ StatOf(calls[1].capture, "likes") = 5000
    /\ calls[1].out = 80

\* capture with stat k set to n
WithStat(capture, k, n) ==
    Merge(capture, [stats |-> Merge(Get(capture, "stats", EmptyDict), (k :> n))])

\* C16: for a capture of any kind, raising one of views, bookmarks, likes
\* while the other stats stay as they are never lowers the importance.
C16_Monotonic ==
    Called("compute_importance") =>
        LET c == calls[1].capture
        IN  /\ \A n \in ViewValues :
                  n >= StatOf(c, "views") =>
                      compute_importance(WithStat(c, "views", n)) >= calls[1].out
            /\ \A n \in BookmarkValues :
                  n >= StatOf(c, "bookmarks") =>
                      compute_importance(WithStat(c, "bookmarks", n)) >= calls[1].out
            /\ \A n \in LikeValues :
                  n >= StatOf(c, "likes") =>
                      compute_importance(WithStat(c, "likes", n)) >= calls[1].out

\* a tweet in the second tier by its likes alone was scored, which more views
\* or more bookmarks lift into the top tier
C16_Witness ==
    /\ Called("compute_importance")
    /\ Get(calls[1].capture, "url_type", <<"w","e","b">>) = <<"t","w","i","t","t","e","r">>
    /\ StatOf(calls[1].capture, "likes") = 5001
    /\ StatOf(calls[1].capture, "views") = 0
    /\ StatOf(calls[1].capture, "bookmarks") = 0
    /\ calls[1].out = 80
    /\ compute_importance(WithStat(calls[1].capture, "views", 500001)) = 90
\* the topics of topic_map of which a keyword is in the title or the summary
TopicsNamed(capture, summary) ==
    { i \in 1..Len(topic_map) :
        \E kw \in topic_map[i].keywords :
            Contains(Lower(Get(capture, "title", <<>>) \o <<" ">> \o summary), kw) }

\* C18: the labels of a capture and summary are between 1 and 6, the first
\* is source-<url_type> of the capture, and it stays first, and is there only
\* once, when more topics are named than the cap lets through.
C18_SourceLabelFirst ==
    Called("_auto_labels") =>
        LET out    == calls[1].out
            source == <<"s","o","u","r","c","e","-">> \o Get(calls[1].capture, "url_type", <<"w","e","b">>)
            named  == Cardinality(TopicsNamed(calls[1].capture, calls[1].summary))
        IN  /\ Len(out) >= 1
            /\ Len(out) <= 6
            /\ Len(out) = Min(1 + named, 6)
            /\ out[1] = source
            /\ \A i \in 2..Len(out) : out[i] # source

\* more topics were named than the cap lets through
C18_Witness ==
    /\ Called("_auto_labels")
    /\ Cardinality(TopicsNamed(calls[1].capture, calls[1].summary)) > 5
    /\ Len(calls[1].out) = 6
    /\ calls[1].out[1] = <<"s","o","u","r","c","e","-","t","w","i","t","t","e","r">>
\* the position of the first occurrence of line in lines
FirstAt(lines, line) ==
    CHOOSE i \in 1..Len(lines) : lines[i] = line /\ \A j \in 1..(i - 1) : lines[j] # line

\* C19: _parse_vtt emits every distinct cleaned caption line exactly once, in
\* the order of first occurrence: no line is emitted twice, whether the
\* repeat follows at once or after other lines, and the text handed back is
\* the emitted lines joined by one space.
C19_FirstSeenOnce ==
    Called("_parse_vtt") =>
        LET cleans == CaptionLines(calls[1].text)
            lines  == calls[1].lines
        IN  /\ \A i, j \in 1..Len(lines) : i # j => lines[i] # lines[j]
            /\ {lines[i] : i \in 1..Len(lines)} = {cleans[i] : i \in 1..Len(cleans)}
            /\ \A i, j \in 1..Len(lines) :
                  i < j => FirstAt(cleans, lines[i]) < FirstAt(cleans, lines[j])
            /\ calls[1].out = Join(lines, <<" ">>)

\* a caption line came back after another line, and was emitted once
C19_Witness ==
    /\ Called("_parse_vtt")
    /\ CaptionLines(calls[1].text) = <<<<"h","e","l","l","o">>, <<"w","o","r","l","d">>, <<"h","e","l","l","o">>>>
    /\ calls[1].out = <<"h","e","l","l","o"," ","w","o","r","l","d">>
\* the parts of the summary of capture, joined and not cut
JoinedParts(capture) == Join(summary_parts(capture), <<"\n">>)

\* C20: the summary of a capture of any kind is at most 400 characters, and
\* it is the joined parts cut once at the end: the first 400 characters of
\* the joined text, or all of it when it is shorter.
C20_SummaryBounded ==
    Called("auto_summary") =>
        LET out  == calls[1].out
            full == JoinedParts(calls[1].capture)
        IN  /\ Len(out) <= 400
            /\ Len(out) = Min(Len(full), DefaultMaxLen)
            /\ out = SubSeq(full, 1, Len(out))

\* the parts of a tweet, each within its own cut, joined to more than 400
\* characters: the summary was cut inside the last part
C20_Witness ==
    /\ Called("auto_summary")
    /\ Get(calls[1].capture, "url_type", <<"w","e","b">>) = <<"t","w","i","t","t","e","r">>
    /\ Len(JoinedParts(calls[1].capture)) > 400
    /\ Len(calls[1].out) = 400
    /\ Contains(calls[1].out, <<"Q","u","o","t","i","n","g"," ","@">>)
\* C21: the content of a capture is cut to one fixed maximum when the fetcher
\* builds the capture: the content that auto_summary and format_for_nmem are
\* given is within the maximum, the row a run saves holds that same string,
\* and the content of every row is within the maximum.
C21_ContentCappedOnce ==
    /\ \A r \in Runs :
          /\ Len(Get(run[r].capture, "content", <<>>)) <= ContentCap
          /\ (Returned(r) /\ "sqlite_id" \in DOMAIN run[r].result) =>
                \A row \in store :
                    row.id = run[r].result["sqlite_id"] =>
                        row.content = run[r].capture["content"]
    /\ \A row \in store : Len(row.content) <= ContentCap
\* s.endswith(p)
EndsWith(s, p) == Len(p) <= Len(s) /\ SubSeq(s, Len(s) - Len(p) + 1, Len(s)) = p

\* the handle answered in place of the author of a status read by the path
\* /i/status/<id>
PlaceholderHandle == <<"i">>

\* the handles and dates of the attributions that end the modelled posts
AttributedHandles == {<<"r","e","a","l">>}
AttributionDates  == {<<"J","a","n"," ","1",","," ","2","0","2","4">>}

\* C22: the capture of a tweet that was answered with an empty author or with
\* the placeholder handle, and whose content ends in (@handle) and a date,
\* has the author @handle.
C22_AuthorRecovered ==
    \A r \in Runs :
        LET c == run[r].capture
        IN  (/\ Get(c, "url_type", <<>>) = <<"t","w","i","t","t","e","r">>
             /\ Get(c, "screen_name", <<>>) \in {<<>>, PlaceholderHandle}) =>
                \A h \in AttributedHandles, d \in AttributionDates :
                    EndsWith(c["content"], <<"(","@">> \o h \o <<")"," ">> \o d) =>
                        c["author"] = <<"@">> \o h
\* C23: once a run with the sqlite backend has returned ok for a url,
\* exists(url) is True for the url the run was given, and every later ok run
\* for that same url reports dedup.exists True and saves nothing: of the ok
\* runs for one url only the first writes.  This for tweet, video and web
\* urls, a web url that is redirected included.
C23_SecondRunSkipsSave ==
    /\ \A r \in Runs :
          (Returned(r) /\ run[r].result["status"] = "ok") => exists(store, run[r].url)
    /\ \A i, j \in 1..Len(calls) :
          (/\ i < j
           /\ calls[i].url = calls[j].url
           /\ calls[i].status = "ok"
           /\ calls[j].status = "ok") =>
              calls[j].exists /\ ~calls[j].saved
\* C24: whatever the interleaving of the runs and of the saves of other
\* processes, the table never holds two rows with the same id nor two rows
\* with the same url.
C24_RowsUnique ==
    \A a, b \in store : (a.id = b.id \/ a.url = b.url) => a = b

\* a run saved the row of its url, then the save of another url with the same
\* id took its place
C24_Witness ==
    \E r \in Runs :
        /\ Live(r)
        /\ run[r].db # <<>> /\ Last(run[r].db) = "save"
        /\ run[r].capture["url"] = WebUrl
        /\ ~exists(store, WebUrl)
        /\ exists(store, ChannelUrl)
        /\ _url_id(ChannelUrl) = _url_id(WebUrl)
====
